---- MODULE Spec2Model ----
(***************************************************************************)
(* Model of the file-access and tag-range service of byte-leviathan        *)
(* (src/src-tauri/src/main.rs): the shared FileState behind a Mutex and    *)
(* the four command handlers open_file, get_file_data, get_tags_in_range   *)
(* and get_all_tags, called from several dispatcher threads.               *)
(*                                                                         *)
(* Option<T> is modelled as a sequence of length 0 (None) or 1 (Some).     *)
(* u64 values stay far below 2^31 in this model, so no wrap-around is      *)
(* modelled.                                                               *)
(***************************************************************************)
EXTENDS Integers, Sequences, FiniteSets, TLC

VARIABLES
    file_path,  \* FileState.file_path: Option<PathBuf>
    file,       \* FileState.file: Option<File>, the handle with its position
    file_size,  \* FileState.file_size: u64
    tags,       \* FileState.tags: Vec<Tag>
    pending,    \* per thread: the locals of an open_file waiting for the lock
    ret,        \* how the most recent call ended: its Result, or its panic
    last_open,  \* history: what the most recent successful open_file replaced
    mutex,      \* the Mutex around FileState: its holder and its poison flag
    frame       \* per thread: where it stands inside a locked section

vars ==
    <<file_path, file, file_size, tags, pending, ret, last_open, mutex, frame>>

\* The fields of FileState (main.rs:18-23), in declaration order.
session == <<file_path, file, file_size, tags>>

-----------------------------------------------------------------------------
\* Bounds of the model.

\* Number of regular files in the modelled file system.
NumFiles == 3

\* Largest number of tags an external producer puts into the session.
MaxTags == 2

-----------------------------------------------------------------------------
\* Program constants and the environment.

\* main.rs:76  const ALIGNMENT: u64 = 512;
ALIGNMENT == 512

None == << >>
Some(x) == << x >>
is_some(o) == Len(o) > 0
is_none(o) == Len(o) = 0
unwrap(o) == o[1]

min(a, b) == IF a <= b THEN a ELSE b

\* Dispatcher worker threads that run command handlers.
Threads == {"t1", "t2"}

\* Paths of existing regular files; path 0 does not exist (File::open fails).
Files == 1 .. NumFiles
MissingPath == 0
Paths == {MissingPath} \cup Files

\* metadata.len() of file p: 0, 512, 513, 1024, 1026, ... : an empty file,
\* files of whole blocks, and files whose last block is partial.
FileLen(p) == (p \div 2) * ALIGNMENT + (p % 2) * (p \div 2)

\* The byte at offset i of file p.  Bytes differ between files and between
\* the same position of neighbouring blocks.
Content(p, i) == (p + i + 3 * (i \div ALIGNMENT)) % 256

\* The contents of every file, as byte sequences.
Disk == [p \in Files |-> [k \in 1 .. FileLen(p) |-> Content(p, k - 1)]]

\* The bytes of file p at offsets [s, e), for e <= FileLen(p).
FileBytes(p, s, e) == SubSeq(Disk[p], s + 1, e)

\* Offsets callers pass to get_file_data as start and end: the first bytes
\* and the bytes around the first block boundary.
Offsets == {0, 1, 511, 512, 513, 514}

\* Offsets callers pass to get_tags_in_range: the ends of the tags below and
\* their neighbours.
TagOffsets == {99, 100, 200, 500}

\* Tags an external producer may install (Tag, main.rs:10-16; display_name
\* and color are opaque to every handler and left out).
TagPool ==
    { [start |-> 0, end |-> 99, name |-> "A"],
      [start |-> 100, end |-> 199, name |-> "B"],
      [start |-> 500, end |-> 500, name |-> "C"] }

\* The producer's tags together with a malformed one (start > end), which
\* the session accepts like any other: nothing in main.rs validates a Tag.
IndexPool == TagPool \cup { [start |-> 200, end |-> 100, name |-> "D"] }

-----------------------------------------------------------------------------
\* Results returned to the caller: Result<T, String>.  val is always a
\* sequence: the bytes, the tags, <<size>> for open_file, or the values an
\* error message carries.

Ok(op, a, b, v) == [op |-> op, a |-> a, b |-> b, kind |-> "Ok", val |-> v]
Err(op, a, b, k, v) == [op |-> op, a |-> a, b |-> b, kind |-> k, val |-> v]

NoCall == [op |-> "none", a |-> 0, b |-> 0, kind |-> "Ok", val |-> << >>]

\* Mutex::new (main.rs:128): nobody holds the lock and it is not poisoned.
Unlocked == [holder |-> None, poisoned |-> FALSE]

\* A thread outside every locked section.  Inside one, pc names the next
\* statement and start, end, size are get_file_data's arguments and its
\* local file_size (main.rs:67).
Idle == [pc |-> "idle", start |-> 0, end |-> 0, size |-> 0]

-----------------------------------------------------------------------------
\* FileState::new (main.rs:26-33) and main's manage(...) (main.rs:128).

Init ==
    /\ file_path = None
    /\ file = None
    /\ file_size = 0
    /\ tags = << >>
    /\ pending = [t \in Threads |-> None]
    /\ ret = NoCall
    /\ last_open = None
    /\ mutex = Unlocked
    /\ frame = [t \in Threads |-> Idle]

-----------------------------------------------------------------------------
\* open_file (main.rs:39-55).  File::open and metadata() run before the lock
\* is taken, so the handler is two steps: the unlocked file-system step and
\* the locked assignment of the session fields.

\* main.rs:42.  A fresh handle on p, positioned at offset 0.
File_open(p) == [ino |-> p, pos |-> 0]

\* open_file_io storing the path in the session before metadata() is asked.
open_file_io_store_first(t, p, meta_ok) ==
    /\ is_none(pending[t])
    /\ IF p \notin Files
         THEN /\ ret' = Err("open_file", p, 0, "OpenFailed", << >>)
              /\ UNCHANGED <<pending, file_path>>
         ELSE IF ~meta_ok
         THEN /\ ret' = Err("open_file", p, 0, "MetadataFailed", << >>)
              /\ file_path' = Some(p)
              /\ UNCHANGED pending
         ELSE /\ pending' = [pending EXCEPT ![t] =
                    Some([path |-> p, file |-> File_open(p),
                          file_size |-> FileLen(p)])]
              /\ UNCHANGED <<ret, file_path>>
    /\ UNCHANGED <<file, file_size, tags, last_open, mutex, frame>>

\* main.rs:40-47: the path does not open, or its metadata cannot be read
\* (meta_ok = FALSE), and the handler returns the error without touching the
\* session; or the handler holds (path, file, file_size) and goes for the lock.
open_file_io(t, p, meta_ok) ==
    /\ is_none(pending[t])
    /\ IF p \notin Files
         THEN /\ ret' = Err("open_file", p, 0, "OpenFailed", << >>)
              /\ UNCHANGED pending
         ELSE IF ~meta_ok
         THEN /\ ret' = Err("open_file", p, 0, "MetadataFailed", << >>)
              /\ UNCHANGED pending
         ELSE /\ pending' = [pending EXCEPT ![t] =
                    Some([path |-> p, file |-> File_open(p),
                          file_size |-> FileLen(p)])]
              /\ UNCHANGED ret
    /\ UNCHANGED <<session, last_open, mutex, frame>>

\* tags_clear forgotten: the tags survive the open.
tags_keep(ts) == ts

\* main.rs:53.  app_state.tags.clear()
tags_clear(ts) == << >>

\* stored_size rounded up to whole blocks.
stored_size_aligned(local) ==
    ((local.file_size + ALIGNMENT - 1) \div ALIGNMENT) * ALIGNMENT

\* main.rs:52.  app_state.file_size = file_size
stored_size(local) == local.file_size

\* main.rs:49-54: under the lock, replace path, handle and size, clear the
\* tags, return the size.
open_file_commit(t) ==
    /\ is_some(pending[t])
    /\ LET local == unwrap(pending[t]) IN
         /\ file_path' = Some(local.path)
         /\ file' = Some(local.file)
         /\ file_size' = stored_size(local)
         /\ tags' = tags_clear(tags)
         /\ ret' = Ok("open_file", local.path, 0, << local.file_size >>)
    /\ pending' = [pending EXCEPT ![t] = None]
    /\ last_open' = Some([replaced |-> is_some(file), dropped |-> tags # << >>])
    /\ UNCHANGED <<mutex, frame>>

-----------------------------------------------------------------------------
\* get_file_data (main.rs:57-104).  The whole handler runs under the lock and
\* is taken as one step here; the step-by-step form follows further down.

\* precondition with the open-file check moved before the range check.
precondition_file_first(start, end, f, size) ==
    IF is_none(f) THEN "NoFileOpen"
    ELSE IF end <= start THEN "InvalidRange"
    ELSE IF start >= size THEN "StartBeyondEof"
    ELSE "Ok"

\* precondition with the size check moved before the open-file check.
precondition_size_first(start, end, f, size) ==
    IF end <= start THEN "InvalidRange"
    ELSE IF start >= size THEN "StartBeyondEof"
    ELSE IF is_none(f) THEN "NoFileOpen"
    ELSE "Ok"

\* main.rs:61-73: the three precondition checks, in source order.
precondition(start, end, f, size) ==
    IF end <= start THEN "InvalidRange"
    ELSE IF is_none(f) THEN "NoFileOpen"
    ELSE IF start >= size THEN "StartBeyondEof"
    ELSE "Ok"

\* main.rs:75
clamp_end(end, size) == min(end, size)

\* main.rs:78
aligned_start_of(start) == (start \div ALIGNMENT) * ALIGNMENT

\* aligned_end_of adding a block even to an aligned end.
aligned_end_always_up(end) == ((end \div ALIGNMENT) + 1) * ALIGNMENT

\* aligned_end_of rounding down instead of up.
aligned_end_floor(end) == (end \div ALIGNMENT) * ALIGNMENT

\* main.rs:80-84
aligned_end_of(end) ==
    IF end % ALIGNMENT = 0 THEN end ELSE ((end \div ALIGNMENT) + 1) * ALIGNMENT

\* seek forgotten: the handle stays where the last read left it.
seek_nowhere(h, off) == h

\* main.rs:91.  file.seek(SeekFrom::Start(off))
seek(h, off) == [h EXCEPT !.pos = off]

\* main.rs:94-95.  vec![0u8; n] followed by read_exact: the buffer is filled
\* from the handle's position, or the file ends first and the call fails
\* with UnexpectedEof after consuming what was left.
read_exact(h, n) ==
    IF h.pos + n <= FileLen(h.ino)
      THEN [ok |-> TRUE,
            buf |-> FileBytes(h.ino, h.pos, h.pos + n),
            file |-> [h EXCEPT !.pos = h.pos + n]]
      ELSE [ok |-> FALSE,
            buf |-> << >>,
            file |-> [h EXCEPT !.pos = IF h.pos <= FileLen(h.ino)
                                         THEN FileLen(h.ino) ELSE h.pos]]

\* main.rs:103.  aligned_buffer[off .. off + len].to_vec()
slice(buf, off, len) == SubSeq(buf, off + 1, off + len)

\* Outcomes of the device for one call that reaches the seek: no fault, a
\* failing seek, or a failing read after `blocks` whole blocks were
\* transferred.
IoOutcomes ==
    { [fault |-> "none", blocks |-> 0], [fault |-> "seek", blocks |-> 0],
      [fault |-> "read", blocks |-> 0], [fault |-> "read", blocks |-> 1] }

\* main.rs:75-103: clamp, alignment arithmetic, seek, read and slice, for a
\* request that passed the checks.  A subtraction below zero (main.rs:85-88)
\* and a slice beyond the buffer (main.rs:103) end the call in a panic, with
\* the lock held.
read_io(f, size, start, end, io) ==
    LET e == clamp_end(end, size)
        aligned_start == aligned_start_of(start)
        aligned_end == aligned_end_of(e)
        aligned_length == aligned_end - aligned_start
        start_offset == start - aligned_start
        requested_length == e - start
        h == unwrap(f)
    IN
    IF aligned_end < aligned_start \/ start < aligned_start \/ e < start
      THEN [ret |-> Err("get_file_data", start, end, "Panicked", << >>),
            file |-> f]
    ELSE IF io.fault = "seek"
      THEN [ret |-> Err("get_file_data", start, end, "SeekFailed",
                        << aligned_start >>),
            file |-> f]
    ELSE IF io.fault = "read"
      THEN [ret |-> Err("get_file_data", start, end, "ReadFailed", << >>),
            file |-> Some(seek(h, min(aligned_start + io.blocks * ALIGNMENT,
                                      min(aligned_end, FileLen(h.ino)))))]
    ELSE
      LET r == read_exact(seek(h, aligned_start), aligned_length) IN
      IF ~r.ok
        THEN [ret |-> Err("get_file_data", start, end, "UnexpectedEof", << >>),
              file |-> Some(r.file)]
      ELSE IF start_offset + requested_length > Len(r.buf)
        THEN [ret |-> Err("get_file_data", start, end, "Panicked", << >>),
              file |-> Some(r.file)]
        ELSE [ret |-> Ok("get_file_data", start, end,
                         slice(r.buf, start_offset, requested_length)),
              file |-> Some(r.file)]

\* read_range seeking to the aligned offset before it checks the request.
read_range_seek_first(f, size, start, end, io) ==
    LET pre == precondition(start, end, f, size)
        g == IF is_some(f)
               THEN Some(seek(unwrap(f), aligned_start_of(start)))
               ELSE f
    IN
    IF pre = "StartBeyondEof"
      THEN [ret |-> Err("get_file_data", start, end, pre, << start, size >>),
            file |-> g]
    ELSE IF pre # "Ok"
      THEN [ret |-> Err("get_file_data", start, end, pre, << >>), file |-> g]
    ELSE read_io(f, size, start, end, io)

\* main.rs:59-103: the result and the handle left in the session.
read_range(f, size, start, end, io) ==
    LET pre == precondition(start, end, f, size) IN
    IF pre = "StartBeyondEof"
      THEN [ret |-> Err("get_file_data", start, end, pre, << start, size >>),
            file |-> f]
    ELSE IF pre # "Ok"
      THEN [ret |-> Err("get_file_data", start, end, pre, << >>), file |-> f]
    ELSE read_io(f, size, start, end, io)

get_file_data(t, start, end, io) ==
    /\ is_none(pending[t])
    /\ io.fault = "none" \/ precondition(start, end, file, file_size) = "Ok"
    /\ LET r == read_range(file, file_size, start, end, io) IN
         /\ ret' = r.ret
         /\ file' = r.file
    /\ UNCHANGED <<file_path, file_size, tags, pending, last_open, mutex, frame>>

-----------------------------------------------------------------------------
\* The tag queries (main.rs:106-123), each under the lock.

\* overlaps with both comparisons strict.
overlaps_strict(tag, start, end) == tag.end > start /\ tag.start < end

\* overlaps with the second comparison turned round.
overlaps_flipped(tag, start, end) == tag.end >= start /\ tag.start >= end

\* main.rs:113
overlaps(tag, start, end) == tag.end >= start /\ tag.start <= end

\* main.rs:110-115.  iter().filter(..).cloned().collect()
tags_in_range(ts, start, end) ==
    SelectSeq(ts, LAMBDA tag : overlaps(tag, start, end))

get_tags_in_range(t, start, end) ==
    /\ is_none(pending[t])
    /\ ret' = Ok("get_tags_in_range", start, end, tags_in_range(tags, start, end))
    /\ UNCHANGED <<session, pending, last_open, mutex, frame>>

\* get_all_tags moving the tags out of the session instead of cloning them.
get_all_tags_take(t) ==
    /\ is_none(pending[t])
    /\ ret' = Ok("get_all_tags", 0, 0, tags)
    /\ tags' = << >>
    /\ UNCHANGED <<file_path, file, file_size, pending, last_open, mutex, frame>>

\* main.rs:122
get_all_tags(t) ==
    /\ is_none(pending[t])
    /\ ret' = Ok("get_all_tags", 0, 0, tags)
    /\ UNCHANGED <<session, pending, last_open, mutex, frame>>

-----------------------------------------------------------------------------
\* Tag population by an external producer, which appends an annotation the
\* session does not hold yet: no handler of main.rs writes tags other than
\* open_file's clear().

populate_tags(tag) ==
    /\ Len(tags) < MaxTags
    /\ \A i \in 1 .. Len(tags) : tags[i] # tag
    /\ tags' = Append(tags, tag)
    /\ UNCHANGED <<file_path, file, file_size, pending, ret, last_open,
                   mutex, frame>>

-----------------------------------------------------------------------------
\* Specifications.

\* The four handlers, called in any order by the threads of T, each locked
\* section taken as one step.
Handlers(T) ==
    \E t \in T :
        \/ \E p \in Paths, meta_ok \in BOOLEAN : open_file_io(t, p, meta_ok)
        \/ open_file_commit(t)
        \/ \E s \in Offsets, e \in Offsets, io \in IoOutcomes :
               get_file_data(t, s, e, io)
        \/ \E s \in TagOffsets, e \in TagOffsets : get_tags_in_range(t, s, e)
        \/ get_all_tags(t)

\* The program as built: every dispatcher thread calls the handlers, and
\* nothing else writes the session.
Next == Handlers(Threads)

Spec == Init /\ [][Next]_vars

\* One caller, together with the external tag producer.
NextTags ==
    \/ Handlers({"t1"})
    \/ \E tag \in TagPool : populate_tags(tag)

SpecTags == Init /\ [][NextTags]_vars

\* The tag index alone: one caller opening files and querying, and a
\* producer that may also install a malformed tag.
NextIndex ==
    \/ \E t \in {"t1"} :
        \/ \E p \in Paths, meta_ok \in BOOLEAN : open_file_io(t, p, meta_ok)
        \/ open_file_commit(t)
        \/ \E s \in TagOffsets, e \in TagOffsets : get_tags_in_range(t, s, e)
        \/ get_all_tags(t)
    \/ \E tag \in IndexPool : populate_tags(tag)

SpecIndex == Init /\ [][NextIndex]_vars

-----------------------------------------------------------------------------
\* The handlers statement by statement, with the Mutex explicit.  A thread
\* inside a locked section has a frame whose pc is not "idle".

\* lock_free without mutual exclusion: lock() returns at once.
lock_ignored(m) == TRUE

\* state.lock() (main.rs:49, 59, 108, 121) returns once nobody holds the lock.
lock_free(m) == is_none(m.holder)

\* .unwrap() of the LockResult (same lines): a poisoned lock makes the
\* handler panic, an unpoisoned one hands out the guard.
lock_unwrap(m) == IF m.poisoned THEN "LockPoisoned" ELSE "Ok"

\* The guard is taken by t; the guard is dropped, after a panic or not.
acquire(m, t) == [m EXCEPT !.holder = Some(t)]
release(m, panicked) ==
    [holder |-> None, poisoned |-> m.poisoned \/ panicked]

NoFault == [fault |-> "none", blocks |-> 0]

\* main.rs:40-47, by a thread that is in no locked section.
open_begin(t, p, meta_ok) ==
    /\ frame[t].pc = "idle"
    /\ open_file_io(t, p, meta_ok)

\* main.rs:49
open_lock(t) ==
    /\ is_some(pending[t])
    /\ frame[t].pc = "idle"
    /\ lock_free(mutex)
    /\ IF lock_unwrap(mutex) # "Ok"
         THEN /\ ret' = Err("open_file", unwrap(pending[t]).path, 0,
                            lock_unwrap(mutex), << >>)
              /\ pending' = [pending EXCEPT ![t] = None]
              /\ UNCHANGED <<mutex, frame>>
         ELSE /\ mutex' = acquire(mutex, t)
              /\ frame' = [frame EXCEPT ![t].pc = "path"]
              /\ UNCHANGED <<ret, pending>>
    /\ UNCHANGED <<session, last_open>>

\* main.rs:50
open_set_path(t) ==
    /\ frame[t].pc = "path"
    /\ file_path' = Some(unwrap(pending[t]).path)
    /\ last_open' = Some([replaced |-> is_some(file), dropped |-> tags # << >>])
    /\ frame' = [frame EXCEPT ![t].pc = "file"]
    /\ UNCHANGED <<file, file_size, tags, pending, ret, mutex>>

\* main.rs:51
open_set_file(t) ==
    /\ frame[t].pc = "file"
    /\ file' = Some(unwrap(pending[t]).file)
    /\ frame' = [frame EXCEPT ![t].pc = "size"]
    /\ UNCHANGED <<file_path, file_size, tags, pending, ret, last_open, mutex>>

\* main.rs:52
open_set_size(t) ==
    /\ frame[t].pc = "size"
    /\ file_size' = stored_size(unwrap(pending[t]))
    /\ frame' = [frame EXCEPT ![t].pc = "tags"]
    /\ UNCHANGED <<file_path, file, tags, pending, ret, last_open, mutex>>

\* main.rs:53-55: clear the tags, return, drop the guard.
open_return(t) ==
    /\ frame[t].pc = "tags"
    /\ tags' = tags_clear(tags)
    /\ ret' = Ok("open_file", unwrap(pending[t]).path, 0,
                 << unwrap(pending[t]).file_size >>)
    /\ pending' = [pending EXCEPT ![t] = None]
    /\ frame' = [frame EXCEPT ![t] = Idle]
    /\ mutex' = release(mutex, FALSE)
    /\ UNCHANGED <<file_path, file, file_size, last_open>>

\* main.rs:59-73: take the lock and check the request; a refused request
\* returns at once, an accepted one goes on with file_size in a local.
read_begin(t, start, end) ==
    /\ is_none(pending[t])
    /\ frame[t].pc = "idle"
    /\ lock_free(mutex)
    /\ IF lock_unwrap(mutex) # "Ok"
         THEN /\ ret' = Err("get_file_data", start, end, lock_unwrap(mutex), << >>)
              /\ UNCHANGED <<mutex, frame>>
         ELSE IF precondition(start, end, file, file_size) # "Ok"
         THEN /\ ret' = read_range(file, file_size, start, end, NoFault).ret
              /\ UNCHANGED <<mutex, frame>>
         ELSE /\ mutex' = acquire(mutex, t)
              /\ frame' = [frame EXCEPT ![t] =
                    [pc |-> "io", start |-> start, end |-> end,
                     size |-> file_size]]
              /\ UNCHANGED ret
    /\ UNCHANGED <<session, pending, last_open>>

\* main.rs:75-104: the arithmetic on the local size, the seek and the read
\* on the session's handle, the slice, the return; the guard is dropped,
\* and poisoned when the handler panicked.
read_finish(t, io) ==
    /\ frame[t].pc = "io"
    /\ LET r == read_io(file, frame[t].size, frame[t].start, frame[t].end, io)
       IN  /\ ret' = r.ret
           /\ file' = r.file
           /\ mutex' = release(mutex, r.ret.kind = "Panicked")
    /\ frame' = [frame EXCEPT ![t] = Idle]
    /\ UNCHANGED <<file_path, file_size, tags, pending, last_open>>

\* main.rs:106-117, the lock taken and dropped within the step.
tags_in_range_call(t, start, end) ==
    /\ frame[t].pc = "idle"
    /\ lock_free(mutex)
    /\ IF lock_unwrap(mutex) # "Ok"
         THEN /\ is_none(pending[t])
              /\ ret' = Err("get_tags_in_range", start, end,
                            lock_unwrap(mutex), << >>)
              /\ UNCHANGED <<session, pending, last_open, mutex, frame>>
         ELSE get_tags_in_range(t, start, end)

\* main.rs:119-123, the lock taken and dropped within the step.
all_tags_call(t) ==
    /\ frame[t].pc = "idle"
    /\ lock_free(mutex)
    /\ IF lock_unwrap(mutex) # "Ok"
         THEN /\ is_none(pending[t])
              /\ ret' = Err("get_all_tags", 0, 0, lock_unwrap(mutex), << >>)
              /\ UNCHANGED <<session, pending, last_open, mutex, frame>>
         ELSE get_all_tags(t)

\* A thread panics inside its locked section, for whatever reason: the
\* unwinding drops the guard and poisons the lock.
panic_in_lock(t) ==
    /\ frame[t].pc # "idle"
    /\ mutex' = release(mutex, TRUE)
    /\ frame' = [frame EXCEPT ![t] = Idle]
    /\ pending' = [pending EXCEPT ![t] = None]
    /\ ret' = Err(IF is_some(pending[t]) THEN "open_file" ELSE "get_file_data",
                  frame[t].start, frame[t].end, "Panicked", << >>)
    /\ UNCHANGED <<session, last_open>>

\* The program as built, statement by statement.
NextLock ==
    \E t \in Threads :
        \/ \E p \in Paths, meta_ok \in BOOLEAN : open_begin(t, p, meta_ok)
        \/ open_lock(t)
        \/ open_set_path(t)
        \/ open_set_file(t)
        \/ open_set_size(t)
        \/ open_return(t)
        \/ \E s \in Offsets, e \in Offsets : read_begin(t, s, e)
        \/ \E io \in IoOutcomes : read_finish(t, io)
        \/ \E s \in TagOffsets, e \in TagOffsets : tags_in_range_call(t, s, e)
        \/ all_tags_call(t)

SpecLock == Init /\ [][NextLock]_vars

\* The same, with threads that may panic while they hold the lock.
NextPoison == NextLock \/ \E t \in Threads : panic_in_lock(t)

SpecPoison == Init /\ [][NextPoison]_vars

-----------------------------------------------------------------------------
\* Properties of get_file_data.  A ret with op = "get_file_data" describes a
\* call on the file that is still open: no later step writes path, handle
\* identity or size without writing ret.

\* The result reports a fault of the device rather than of the request.
DeviceFault == ret.kind \in {"SeekFailed", "ReadFailed"}

\* The bytes of file p at offsets [s, e), read off the file's contents.
Expected(p, s, e) == [k \in 1 .. (e - s) |-> Content(p, s + k - 1)]

\* The file the session's handle is open on, and its true length.
OpenIno == unwrap(file).ino
OpenLen == FileLen(OpenIno)

\* C1 (read fidelity): for an open file of length L and 0 <= s < e <= L,
\* get_file_data(s, e) succeeds, device faults aside, and returns exactly the
\* bytes of the file at [s, e), e - s of them.
C1_ReadFidelity ==
    ( /\ ret.op = "get_file_data"
      /\ is_some(file)
      /\ 0 <= ret.a /\ ret.a < ret.b /\ ret.b <= OpenLen
      /\ ~DeviceFault )
    => /\ ret.kind = "Ok"
       /\ Len(ret.val) = ret.b - ret.a
       /\ ret.val = Expected(OpenIno, ret.a, ret.b)

\* C2 (tail clamp): for an open file of length L, 0 <= s < L and e > L,
\* get_file_data(s, e) succeeds, device faults aside, and returns exactly the
\* bytes [s, L).
C2_TailClamp ==
    ( /\ ret.op = "get_file_data"
      /\ is_some(file)
      /\ 0 <= ret.a /\ ret.a < OpenLen /\ ret.b > OpenLen
      /\ ~DeviceFault )
    => /\ ret.kind = "Ok"
       /\ ret.val = Expected(OpenIno, ret.a, OpenLen)

\* C3 (tail reads past EOF succeed): get_file_data never returns the
\* UnexpectedEof error.
C3_NoUnexpectedEof ==
    ret.op = "get_file_data" => ret.kind # "UnexpectedEof"

\* C4 (precondition order): get_file_data(start, end) returns InvalidRange
\* whenever end <= start, open file or not; otherwise NoFileOpen whenever no
\* file is open; otherwise StartBeyondEof whenever start >= size; in each of
\* these cases the step leaves the handle and its position alone, and in no
\* other case does it return one of the three errors.
C4_Outcome ==
    ret.op = "get_file_data" =>
        /\ ret.b <= ret.a => ret.kind = "InvalidRange"
        /\ (ret.b > ret.a /\ is_none(file)) => ret.kind = "NoFileOpen"
        /\ (ret.b > ret.a /\ is_some(file) /\ ret.a >= file_size)
               => ret.kind = "StartBeyondEof" /\ ret.val = << ret.a, file_size >>
        /\ (ret.b > ret.a /\ is_some(file) /\ ret.a < file_size)
               => ret.kind \notin {"InvalidRange", "NoFileOpen", "StartBeyondEof"}

C4_NoIo ==
    ( /\ ret'.op = "get_file_data"
      /\ ret'.kind \in {"InvalidRange", "NoFileOpen", "StartBeyondEof"} )
    => file' = file

C4_PreconditionOrder == [] C4_Outcome /\ [][C4_NoIo]_vars

\* Reached: a request on an open empty file is refused with StartBeyondEof.
C4_Witness ==
    /\ ret.op = "get_file_data" /\ ret.kind = "StartBeyondEof"
    /\ is_some(file) /\ file_size = 0

\* C5 as stated (no-file rejection): before any open_file has succeeded,
\* every get_file_data(start, end), for all start and end, fails with
\* NoFileOpen.
C5_AlwaysNoFileOpen ==
    (is_none(last_open) /\ ret.op = "get_file_data") => ret.kind = "NoFileOpen"

\* C5 amended: before any open_file has succeeded, get_file_data(start, end)
\* fails with NoFileOpen for every end > start, and with InvalidRange for
\* every end <= start.
C5_NoFileRejection ==
    (is_none(last_open) /\ ret.op = "get_file_data") =>
        /\ ret.b > ret.a => ret.kind = "NoFileOpen"
        /\ ret.b <= ret.a => ret.kind = "InvalidRange"

\* Reached: NoFileOpen before any successful open, while another thread's
\* open_file is between its file-system step and the lock.
C5_Witness ==
    /\ is_none(last_open)
    /\ ret.op = "get_file_data" /\ ret.kind = "NoFileOpen"
    /\ \E t \in Threads : is_some(pending[t])

-----------------------------------------------------------------------------
\* Frame and error properties.

\* The step is the external producer's.
Populated == \E tag \in TagPool : populate_tags(tag)

\* The step is the locked part of an open_file, which returns Ok.
Committed == \E t \in Threads : is_some(pending[t]) /\ is_none(pending'[t])

\* C6 (empty/inverted range rejection leaves the handle untouched): a
\* get_file_data(s, e) with e <= s fails with InvalidRange, and the handle,
\* its file position and every other session field are as before the call.
C6_Step ==
    ( /\ ~Populated
      /\ ret'.op = "get_file_data"
      /\ ret'.b <= ret'.a )
    => /\ ret'.kind = "InvalidRange"
       /\ session' = session

C6_InvalidRangeUntouched == [][C6_Step]_vars

\* Reached: an InvalidRange on an open handle that earlier reads left at a
\* nonzero position, with tags in the session.
C6_Witness ==
    /\ ret.op = "get_file_data" /\ ret.kind = "InvalidRange"
    /\ is_some(file) /\ unwrap(file).pos > 0
    /\ tags # << >>

\* C7 as stated (state unchanged on error), read on the errors other than
\* the UnexpectedEof of C3: whenever an operation returns an error, path,
\* handle (with its file position), size and tags are exactly as before.
C7_Unchanged ==
    ( /\ ~Populated
      /\ ret'.kind \notin {"Ok", "UnexpectedEof"} )
    => session' = session

C7_AllUnchangedOnError == [][C7_Unchanged]_vars

\* C7 amended: whenever an operation returns an error, path, size and tags
\* are exactly as before and the handle is open on the same file as before
\* (or absent as before); the handle's file position is as before too,
\* unless the error is get_file_data's ReadFailed or UnexpectedEof.
C7_Frame ==
    ( /\ ~Populated
      /\ ret'.kind # "Ok" )
    => /\ file_path' = file_path
       /\ file_size' = file_size
       /\ tags' = tags
       /\ is_some(file') = is_some(file)
       /\ is_some(file) => unwrap(file').ino = unwrap(file).ino
       /\ ret'.kind \notin {"ReadFailed", "UnexpectedEof"} => file' = file

C7_StateUnchangedOnError == [][C7_Frame]_vars

\* Reached: a failed open_file with a file open and tags in the session.
C7_Witness ==
    /\ ret.op = "open_file" /\ ret.kind \in {"OpenFailed", "MetadataFailed"}
    /\ is_some(file) /\ is_some(file_path)
    /\ tags # << >>

\* C8 (reset on open): a successful open_file leaves the tag sequence empty
\* whatever it held; it stays empty until the producer populates it; and
\* while it is empty get_all_tags and every get_tags_in_range query return
\* the empty sequence.
C8_Step ==
    /\ Committed => tags' = << >>
    /\ (tags = << >> /\ ~Populated) => tags' = << >>
    /\ ( /\ tags = << >> /\ ~Populated
         /\ ret'.op \in {"get_all_tags", "get_tags_in_range"} )
       => ret'.val = << >>

C8_ResetOnOpen == [][C8_Step]_vars

\* Reached: get_all_tags returns the empty sequence after an open_file that
\* found tags in the session.
C8_Witness ==
    /\ is_some(last_open) /\ unwrap(last_open).dropped
    /\ ret.op = "get_all_tags" /\ ret.val = << >>

\* C9 (open postcondition): after a successful open_file(p) the session
\* holds p, a fresh handle on p and the length of p, all set in the one
\* step, and the value returned is that stored size.
C9_OpenPostcondition ==
    (ret.op = "open_file" /\ ret.kind = "Ok") =>
        /\ file_path = Some(ret.a)
        /\ file = Some([ino |-> ret.a, pos |-> 0])
        /\ file_size = FileLen(ret.a)
        /\ ret.val = << file_size >>

\* Reached: an open_file that replaced an open file by one whose length is
\* no multiple of the block size.
C9_Witness ==
    /\ ret.op = "open_file" /\ ret.kind = "Ok"
    /\ is_some(last_open) /\ unwrap(last_open).replaced
    /\ file_size % ALIGNMENT # 0

\* C10 (session invariant): the path is present iff the handle is present,
\* and when both are absent the size is 0 and the tag sequence is empty.
C10_SessionInvariant ==
    /\ is_some(file_path) <=> is_some(file)
    /\ (is_none(file_path) /\ is_none(file)) => (file_size = 0 /\ tags = << >>)

\* Reached: the empty session after a failed open_file, with another
\* thread's open_file between its file-system step and the lock.
C10_Witness ==
    /\ is_none(file_path) /\ is_none(file)
    /\ ret.op = "open_file" /\ ret.kind = "MetadataFailed"
    /\ \E t \in Threads : is_some(pending[t])

-----------------------------------------------------------------------------
\* Properties of get_tags_in_range, under SpecIndex.

\* The step is a get_tags_in_range call returning: it is not the
\* producer's, it starts no open_file, and it leaves a query result in ret.
QueryStep ==
    /\ ~ \E tag \in IndexPool : populate_tags(tag)
    /\ pending' = pending
    /\ ret'.op = "get_tags_in_range"

\* The positions of ts whose tag T has T.end >= s and T.start <= e.
Hits(ts, s, e) == {i \in 1 .. Len(ts) : ts[i].end >= s /\ ts[i].start <= e}

\* The k-th smallest element of the set S of positions.
Nth(S, k) == CHOOSE i \in S : Cardinality({j \in S : j < i}) = k - 1

\* The tags of ts at the positions Hits, each once, in the order of ts.
Overlapping(ts, s, e) ==
    [k \in 1 .. Cardinality(Hits(ts, s, e)) |-> ts[Nth(Hits(ts, s, e), k)]]

\* The tag x occurs in the sequence q.
InSeq(x, q) == \E j \in 1 .. Len(q) : q[j] = x

\* C11 (overlap exactness): get_tags_in_range(s, e) returns exactly the tags
\* T with T.end >= s and T.start <= e, no others, each once, in the order
\* the session holds them.
C11_Step == QueryStep => ret'.val = Overlapping(tags, ret'.a, ret'.b)

C11_OverlapExactness == [][C11_Step]_vars

\* Reached: of two tags held, the query returned the second and not the
\* first.
C11_Witness ==
    /\ ret.op = "get_tags_in_range"
    /\ Len(tags) = 2 /\ Len(ret.val) = 1 /\ ret.val[1] = tags[2]

\* C12 (overlap monotonicity): every tag get_tags_in_range(s1, e1) returns
\* is also returned by get_tags_in_range(s2, e2) on the same tags, whenever
\* s2 <= s1 and e1 <= e2.
C12_Step ==
    QueryStep =>
        \A s2 \in TagOffsets, e2 \in TagOffsets :
            (s2 <= ret'.a /\ ret'.b <= e2) =>
                \A i \in 1 .. Len(ret'.val) :
                    InSeq(ret'.val[i], tags_in_range(tags, s2, e2))

C12_OverlapMonotonicity == [][C12_Step]_vars

\* Reached: a query that returned a tag, on tags of which a wider query
\* returns more.
C12_Witness ==
    /\ ret.op = "get_tags_in_range" /\ ret.val # << >>
    /\ \E s2 \in TagOffsets, e2 \in TagOffsets :
           /\ s2 <= ret.a /\ ret.b <= e2
           /\ Len(tags_in_range(tags, s2, e2)) > Len(ret.val)

\* C13 as stated (boundary inclusion): for every query (s, e), every tag T
\* held with T.end = s or with T.start = e is in the result.
C13_AnyQuery ==
    QueryStep =>
        \A i \in 1 .. Len(tags) :
            (tags[i].end = ret'.a \/ tags[i].start = ret'.b)
                => InSeq(tags[i], ret'.val)

C13_BoundaryInclusionAnyQuery == [][C13_AnyQuery]_vars

\* C13 amended: for every query (s, e) with s <= e, every well-formed tag T
\* (T.start <= T.end) held with T.end = s or with T.start = e is in the
\* result.
C13_Step ==
    (QueryStep /\ ret'.a <= ret'.b) =>
        \A i \in 1 .. Len(tags) :
            ( /\ tags[i].start <= tags[i].end
              /\ tags[i].end = ret'.a \/ tags[i].start = ret'.b )
                => InSeq(tags[i], ret'.val)

C13_BoundaryInclusion == [][C13_Step]_vars

\* Reached: a query with s < e that returned a tag ending at s and a tag
\* starting at e.
C13_Witness ==
    /\ ret.op = "get_tags_in_range" /\ ret.a < ret.b
    /\ \E i \in 1 .. Len(ret.val) : ret.val[i].end = ret.a
    /\ \E i \in 1 .. Len(ret.val) : ret.val[i].start = ret.b

-----------------------------------------------------------------------------
\* The alignment arithmetic of get_file_data, under Spec.

\* The last call was a get_file_data that passed the three checks.
PassedChecks ==
    /\ ret.op = "get_file_data"
    /\ ret.kind \notin {"InvalidRange", "NoFileOpen", "StartBeyondEof"}

\* Its clamped end, and the window it seeks to and reads.
ReqEnd == IF ret.b <= file_size THEN ret.b ELSE file_size
WinStart == aligned_start_of(ret.a)
WinEnd == aligned_end_of(ReqEnd)

\* C17 (aligned window): for a request that passed the checks, the seek
\* offset and the read length are multiples of 512, the window encloses the
\* clamped request, and it does so with less than 512 bytes to spare on
\* either side; a failed seek reports the window's start and a successful
\* read leaves the handle at the window's end.
C17_AlignedWindow ==
    PassedChecks =>
        /\ WinStart % ALIGNMENT = 0
        /\ (WinEnd - WinStart) % ALIGNMENT = 0
        /\ WinStart <= ret.a /\ ReqEnd <= WinEnd
        /\ ret.a - WinStart < ALIGNMENT
        /\ WinEnd - ReqEnd < ALIGNMENT
        /\ ret.kind = "SeekFailed" => ret.val = << WinStart >>
        /\ ret.kind = "Ok" => unwrap(file).pos = WinEnd

\* Reached: a request with unaligned start and end whose window is two
\* blocks long.
C17_Witness ==
    /\ PassedChecks
    /\ ret.a % ALIGNMENT # 0 /\ ReqEnd % ALIGNMENT # 0
    /\ WinEnd - WinStart = 2 * ALIGNMENT

C20_HistoryIndependent ==
    is_some(file) =>
        \A s \in Offsets, e \in Offsets, io \in IoOutcomes :
            read_range(file, file_size, s, e, io).ret
              = read_range(Some(File_open(OpenIno)), file_size, s, e, io).ret

\* Reached: a handle that a failed read left inside a block.
C20_Witness ==
    /\ ret.op = "get_file_data" /\ ret.kind = "UnexpectedEof"
    /\ is_some(file) /\ unwrap(file).pos % ALIGNMENT # 0

-----------------------------------------------------------------------------
\* C18 (only open mutates the session), under SpecTags: the producer aside,
\* path, size and tags change only in the step in which an open_file
\* returns Ok; a tag query leaves all four fields as they were; and a
\* get_file_data, whatever it returns, leaves path, size and tags as they
\* were and the handle open on the same file, moving at most its position.
C18_Step ==
    ~Populated =>
        /\ (file_path' # file_path \/ file_size' # file_size \/ tags' # tags)
             => (Committed /\ ret'.op = "open_file" /\ ret'.kind = "Ok")
        /\ ( /\ pending' = pending
             /\ ret'.op \in {"get_tags_in_range", "get_all_tags"} )
             => session' = session
        /\ (pending' = pending /\ ret'.op = "get_file_data")
             => /\ file_path' = file_path
                /\ file_size' = file_size
                /\ tags' = tags
                /\ is_some(file') = is_some(file)
                /\ is_some(file) => unwrap(file').ino = unwrap(file).ino

C18_OnlyOpenMutates == [][C18_Step]_vars

\* Reached: get_all_tags returned the tags the session still holds, on a
\* handle that reads have moved.
C18_Witness ==
    /\ ret.op = "get_all_tags" /\ ret.val # << >> /\ tags = ret.val
    /\ is_some(file) /\ unwrap(file).pos > 0


-----------------------------------------------------------------------------
\* Properties of the lock, under SpecLock and SpecPoison.

\* Thread t is inside a locked section; thread t has begun an operation and
\* not yet returned from it.
InLock(t) == frame[t].pc # "idle"
InOperation(t) == is_some(pending[t]) \/ InLock(t)

\* Path, handle and size are those one open_file wrote, or those of the
\* empty session.
OneOpen ==
    /\ is_some(file_path) <=> is_some(file)
    /\ is_some(file) =>
          /\ unwrap(file_path) = OpenIno
          /\ file_size = OpenLen

\* Thread t takes a step inside get_file_data's locked section and stays in
\* it; thread t returns from get_file_data's locked section.
C14_Reading(t) == frame[t].pc = "io" /\ frame'[t].pc = "io"
C14_Returns(t) == frame[t].pc = "io" /\ frame'[t].pc = "idle"

\* Whatever an operation finds when it takes the lock was written by one
\* open_file, and a reader between its checks and its read holds the size
\* of the handle it is about to read.
C14_Observed ==
    /\ is_none(mutex.holder) => OneOpen
    /\ \A t \in Threads :
          frame[t].pc = "io" =>
              /\ is_some(file)
              /\ OneOpen
              /\ frame[t].size = file_size

\* Nothing changes the session under a reader, and the reader returns what
\* get_file_data as one step returns on the session it finds at its end.
C14_Step ==
    /\ (\E t \in Threads : C14_Reading(t)) => session' = session
    /\ \A t \in Threads :
          C14_Returns(t) =>
              \E io \in IoOutcomes :
                  LET r == read_range(file, file_size, frame[t].start,
                                      frame[t].end, io)
                  IN  ret' = r.ret /\ file' = r.file

\* C14 (no torn state under concurrency), under SpecLock: in every
\* interleaving of the statements of open_file, get_file_data and the tag
\* queries on two threads, each operation observes a path, a handle and a
\* size written by one open_file; a read never uses the handle of one open
\* with the size of another, and it returns what it would return as a single
\* step before or after each concurrent open.
C14_NoTornState == []C14_Observed /\ [][C14_Step]_vars

\* Reached: a reader between its checks and its read, while another thread
\* has opened a different file and waits for the lock.
C14_Witness ==
    \E t \in Threads, u \in Threads :
        /\ frame[t].pc = "io"
        /\ is_some(pending[u])
        /\ unwrap(pending[u]).file.ino # OpenIno

\* C15 as stated (lock scope): each of the four operations holds the lock
\* from its first step to its last, open_file's file-system open and length
\* query included.
C15_LockedThroughout ==
    \A t \in Threads : InOperation(t) => mutex.holder = Some(t)

\* The step is open_file's file-system open and length query having
\* succeeded.
C15_OpenedUnlocked ==
    \E t \in Threads : is_none(pending[t]) /\ is_some(pending'[t])

C15_Step ==
    /\ session' # session =>
          \E t \in Threads : InLock(t) /\ mutex.holder = Some(t)
    /\ C15_OpenedUnlocked => (session' = session /\ mutex' = mutex)

\* C15 (lock scope, amended), under SpecLock: a thread is inside a locked
\* section, which for open_file is the replacement of the session fields
\* (main.rs:49-54) and for the other three the whole operation, exactly
\* while it holds the lock, so no two threads are inside one; the session
\* changes only in a step of the holder; and open_file's file-system open
\* and length query run before the lock is taken and leave the session and
\* the lock alone.
C15_LockScope ==
    /\ [](\A t \in Threads : InLock(t) <=> mutex.holder = Some(t))
    /\ [][C15_Step]_vars

\* Reached: a thread half way through replacing the session under the lock,
\* while another thread has opened its file and does not hold the lock.
C15_Witness ==
    \E t \in Threads, u \in Threads :
        /\ frame[t].pc = "size"
        /\ mutex.holder = Some(t)
        /\ is_some(pending[u]) /\ ~InLock(u)

\* C16 (poison recovery), under SpecPoison: after a thread has panicked
\* while holding the lock, no later call of the four operations fails
\* because the lock is poisoned.
C16_PoisonRecovery == mutex.poisoned => ret.kind # "LockPoisoned"

====
